---- MODULE Spec2Model ----
(***************************************************************************)
(* Model of lana-sim-scenarios: the Scenario Loader (scenario_parser.py)   *)
(* and the Event Translator (rust_generator.py).                           *)
(*                                                                         *)
(* Representation of Python values:                                        *)
(*  - a str that the code inspects character by character (entity keys,   *)
(*    *_id_ref values, duration strings) is a sequence of atoms.  An atom  *)
(*    is either a single character ("_", "r", "3", ...) or a run of        *)
(*    characters that ends in a character outside "_ref" and contains no   *)
(*    other atom ("custom", "collateral", "facility", "buy").  So          *)
(*    "customer_1" is <<"custom","e","r","_","1">>.                        *)
(*  - a str that the code only compares or passes on (event types, action  *)
(*    types, dict keys) is a TLA+ string.                                  *)
(*  - a dict is a function whose DOMAIN is the set of keys present.        *)
(*  - a timedelta is its total number of seconds.                          *)
(*  - a Decimal is the integer number of hundredths (Decimal("1.40") is    *)
(*    140, Decimal("12") is 1200).                                         *)
(*  - a raw YAML scalar that becomes a Decimal is [kind, v]: kind "str"    *)
(*    for a quoted string such as "1.40", kind "num" for a YAML number;    *)
(*    v is the value in hundredths.                                        *)
(*  - the float n / 100 is [whole |-> n \div 100, cents |-> n % 100].      *)
(***************************************************************************)
EXTENDS Integers, Sequences, FiniteSets, TLC

VARIABLES
    data,                \* the raw scenario mapping's "events" list (parse_dict's input)
    events,              \* scenario.events: the parsed ScenarioEvents
    pc,                  \* "parse" | "pass1" | "pass2" | "done"; in a batch also
                         \* "idle" (between files) and "raised" (an exception travels)
    i,                   \* index of the next element of the running loop
    collateral_amounts,  \* convert_scenario's local dict
    tracker,             \* convert_scenario's EntityTracker
    actions,             \* convert_scenario's action list
    yaml_files,          \* convert_all: the sorted list of loaded files; a file's path is its index
    file_no,             \* convert_all: index of the file of the running iteration
    scenarios,           \* convert_all: the list handed to generate_mod_rs
    output,              \* convert_all: the .rs files of output_path, by module name
    echoed,              \* convert_all: the per-file lines of click.echo
    mod_rs,              \* convert_all: None, or the scenario list rendered into mod.rs
    bpc,                 \* "none" (no batch) | "loop" | "file" | "done"
    exc                  \* None, or the exception travelling to the except clause

batch_vars == <<yaml_files, file_no, scenarios, output, echoed, mod_rs, bpc, exc>>

vars == <<data, events, pc, i, collateral_amounts, tracker, actions,
          yaml_files, file_no, scenarios, output, echoed, mod_rs, bpc, exc>>

-----------------------------------------------------------------------------
(* dict and str helpers                                                    *)

EmptyDict == [k \in {} |-> 0]

Get(d, k, default) == IF k \in DOMAIN d THEN d[k] ELSE default

Put(d, k, v) == [x \in (DOMAIN d) \cup {k} |-> IF x = k THEN v ELSE d[x]]

EndsWith(s, suffix) ==
    /\ Len(s) >= Len(suffix)
    /\ SubSeq(s, Len(s) - Len(suffix) + 1, Len(s)) = suffix

StartsWithAt(s, p, old) ==
    /\ p + Len(old) - 1 <= Len(s)
    /\ SubSeq(s, p, p + Len(old) - 1) = old

\* str.rstrip(chars): drop trailing characters while they are in chars
RECURSIVE RStrip(_, _)
RStrip(s, chars) ==
    IF s # <<>> /\ s[Len(s)] \in chars
    THEN RStrip(SubSeq(s, 1, Len(s) - 1), chars)
    ELSE s

\* str.replace(old, ""): drop every occurrence of old, scanning left to right
RECURSIVE ReplaceFrom(_, _, _)
ReplaceFrom(s, p, old) ==
    IF p > Len(s) THEN <<>>
    ELSE IF StartsWithAt(s, p, old) THEN ReplaceFrom(s, p + Len(old), old)
    ELSE <<s[p]>> \o ReplaceFrom(s, p + 1, old)

Replace(s, old) == ReplaceFrom(s, 1, old)

Str_ref == <<"_", "r", "e", "f">>
Str_customer_ == <<"custom", "e", "r", "_">>
customer_1 == Str_customer_ \o <<"1">>
customer_2 == Str_customer_ \o <<"2">>
customer_9 == Str_customer_ \o <<"9">>
collateral_1 == <<"collateral", "_", "1">>
collateral_2 == <<"collateral", "_", "2">>
collateral_9 == <<"collateral", "_", "9">>
facility_1 == <<"facility", "_", "1">>
facility_2 == <<"facility", "_", "2">>
disbursal_1 == <<"disbursal", "_", "1">>

-----------------------------------------------------------------------------
(* scenario_parser.py                                                      *)

Digits == {"0", "1", "2", "3", "4", "5", "6", "7", "8", "9"}

DigitVal(c) ==
    CASE c = "0" -> 0 [] c = "1" -> 1 [] c = "2" -> 2 [] c = "3" -> 3
      [] c = "4" -> 4 [] c = "5" -> 5 [] c = "6" -> 6 [] c = "7" -> 7
      [] c = "8" -> 8 [] c = "9" -> 9

\* the length of the longest prefix of s matched by \d+ (greedy)
RECURSIVE LeadingDigits(_)
LeadingDigits(s) ==
    IF s # <<>> /\ Head(s) \in Digits THEN 1 + LeadingDigits(Tail(s)) ELSE 0

\* int() of a run of digits
RECURSIVE IntOf(_)
IntOf(ds) ==
    IF ds = <<>> THEN 0
    ELSE 10 * IntOf(SubSeq(ds, 1, Len(ds) - 1)) + DigitVal(ds[Len(ds)])

\* ScenarioParser._parse_duration: re.match(r"(\d+)([smhd])", s) matches at the
\* start of s and ignores whatever follows the unit letter
parse_duration(duration_str) ==
    IF duration_str = <<>> THEN 0
    ELSE LET n == LeadingDigits(duration_str)
         IN IF n = 0 \/ n = Len(duration_str) THEN 0
            ELSE LET value == IntOf(SubSeq(duration_str, 1, n))
                     unit  == duration_str[n + 1]
                 IN CASE unit = "s" -> value
                      [] unit = "m" -> value * 60
                      [] unit = "h" -> value * 3600
                      [] unit = "d" -> value * 86400
                      [] OTHER -> 0

\* ScenarioParser._parse_event
parse_event(event_def) ==
    [ event_type |-> event_def["event"],
      entity     |-> event_def["entity"],
      after      |-> parse_duration(Get(event_def, "after", <<"0", "m">>)),
      values     |-> Get(event_def, "values", EmptyDict) ]

\* timedelta.days
Days(after) == after \div 86400

-----------------------------------------------------------------------------
(* rust_generator.py: TermsValues                                          *)

\* Decimal(str(x)) of a raw YAML scalar
Decimal(raw) == raw.v

\* Python truthiness of a raw YAML scalar: a non-empty str is true, the number 0 is false
Truthy(raw) == raw.kind = "str" \/ raw.v # 0

\* TermsValues(): the dataclass defaults
TermsValuesDefault ==
    [ annual_rate            |-> 1200,
      duration_months        |-> 3,
      interest_due_days      |-> 0,
      overdue_days           |-> 50,
      liquidation_days       |-> "None",
      accrual_interval       |-> "EndOfDay",
      accrual_cycle_interval |-> "EndOfMonth",
      one_time_fee_rate      |-> 1,
      initial_cvl            |-> 14000,
      margin_call_cvl        |-> 12500,
      liquidation_cvl        |-> 10500,
      disbursal_policy       |-> "SingleDisbursal" ]

\* from_yaml's annual_rate block
parse_annual_rate(terms) ==
    IF "annual_rate" \in DOMAIN terms
    THEN LET rate == Decimal(terms["annual_rate"])
         IN IF rate < 100 THEN rate * 100 ELSE rate
    ELSE 1200

\* from_yaml's nested parse_cvl; every raw CVL value is a mapping
parse_cvl(cvl_dict, default) ==
    IF DOMAIN cvl_dict = {} THEN default
    ELSE LET present == "Finite" \in DOMAIN cvl_dict \/ "finite" \in DOMAIN cvl_dict
             finite  == IF "Finite" \in DOMAIN cvl_dict
                        THEN cvl_dict["Finite"] ELSE cvl_dict["finite"]
         IN IF present /\ Truthy(finite)
            THEN LET val == Decimal(finite)
                 IN IF val < 1000 THEN val * 100 ELSE val
            ELSE default

\* TermsValues.from_yaml; the duration sub-mappings are mappings
from_yaml(terms) ==
    IF DOMAIN terms = {} THEN TermsValuesDefault
    ELSE
    [ annual_rate            |-> parse_annual_rate(terms),
      duration_months        |-> LET duration == Get(terms, "duration", EmptyDict)
                                 IN Get(duration, "Months", Get(duration, "months", 3)),
      interest_due_days      |-> LET due == Get(terms, "interest_due_duration_from_accrual", EmptyDict)
                                 IN Get(due, "Days", Get(due, "days", 0)),
      overdue_days           |-> 50,
      liquidation_days       |-> "None",
      accrual_interval       |-> Get(terms, "accrual_interval", "EndOfDay"),
      accrual_cycle_interval |-> Get(terms, "accrual_cycle_interval", "EndOfMonth"),
      one_time_fee_rate      |-> Decimal(Get(terms, "one_time_fee_rate", [kind |-> "str", v |-> 1])),
      initial_cvl            |-> parse_cvl(Get(terms, "initial_cvl", EmptyDict), 14000),
      margin_call_cvl        |-> parse_cvl(Get(terms, "margin_call_cvl", EmptyDict), 12500),
      liquidation_cvl        |-> parse_cvl(Get(terms, "liquidation_cvl", EmptyDict), 10500),
      disbursal_policy       |-> Get(terms, "disbursal_policy", "SingleDisbursal") ]

-----------------------------------------------------------------------------
(* rust_generator.py: EntityTracker                                        *)

EntityTracker ==
    [ customers |-> EmptyDict, facilities |-> EmptyDict,
      collaterals |-> EmptyDict, disbursals |-> EmptyDict ]

\* EntityTracker.register_customer(entity), suffix not given
register_customer(t, entity) ==
    [t EXCEPT !.customers = Put(t.customers, entity, Replace(entity, Str_customer_))]

\* register_facility with customer_ref and collateral_ref stored under each other's key
register_facility_swapped(t, entity, customer_ref, collateral_ref, amount, terms) ==
    [t EXCEPT !.facilities = Put(t.facilities, entity,
        [ customer_ref   |-> collateral_ref,
          collateral_ref |-> customer_ref,
          amount         |-> amount,
          terms          |-> from_yaml(terms) ])]

\* EntityTracker.register_facility
register_facility(t, entity, customer_ref, collateral_ref, amount, terms) ==
    [t EXCEPT !.facilities = Put(t.facilities, entity,
        [ customer_ref   |-> customer_ref,
          collateral_ref |-> collateral_ref,
          amount         |-> amount,
          terms          |-> from_yaml(terms) ])]

\* Python's None, and a value that may be None: <<>> or <<value>>
None == <<>>

\* EntityTracker.register_collateral; facility_ref is None or <<key>>
register_collateral(t, entity, satoshis, facility_ref) ==
    [t EXCEPT !.collaterals = Put(t.collaterals, entity,
        [satoshis |-> satoshis, facility_ref |-> facility_ref])]

\* EntityTracker.register_disbursal; facility_ref is None or <<key>>
register_disbursal(t, entity, facility_ref, amount) ==
    [t EXCEPT !.disbursals = Put(t.disbursals, entity,
        [facility_ref |-> facility_ref, amount |-> amount])]

\* EntityTracker.get_facility_for_entity: None or <<facility key>>
get_facility_for_entity(t, entity) ==
    IF entity \in DOMAIN t.disbursals THEN t.disbursals[entity].facility_ref
    ELSE IF entity \in DOMAIN t.collaterals THEN t.collaterals[entity].facility_ref
    ELSE None

-----------------------------------------------------------------------------
(* rust_generator.py: RustGenerator                                        *)

EVENT_TO_ACTION ==
       ("CustomerEvent::Initialized" :> "create_customer")
    @@ ("CustomerEvent::EmailUpdated" :> "skip")
    @@ ("DepositAccountEvent::Initialized" :> "skip")
    @@ ("DepositEvent::Initialized" :> "make_deposit")
    @@ ("DepositEvent::Reverted" :> "skip")
    @@ ("WithdrawalEvent::Initialized" :> "skip")
    @@ ("WithdrawalEvent::Confirmed" :> "skip")
    @@ ("WithdrawalEvent::Denied" :> "skip")
    @@ ("WithdrawalEvent::Cancelled" :> "skip")
    @@ ("CreditFacilityProposalEvent::Initialized" :> "create_proposal")
    @@ ("CreditFacilityProposalEvent::CustomerApprovalConcluded" :> "conclude_customer_approval")
    @@ ("CreditFacilityProposalEvent::ApprovalProcessConcluded" :> "wait_for_approval")
    @@ ("ApprovalProcessEvent::Initialized" :> "skip")
    @@ ("ApprovalProcessEvent::Approved" :> "skip")
    @@ ("ApprovalProcessEvent::Denied" :> "skip")
    @@ ("ApprovalProcessEvent::Concluded" :> "skip")
    @@ ("CollateralEvent::Initialized" :> "skip")
    @@ ("CollateralEvent::UpdatedViaManualInput" :> "update_collateral")
    @@ ("CollateralEvent::UpdatedViaCustodianSync" :> "update_collateral")
    @@ ("PendingCreditFacilityEvent::Initialized" :> "skip")
    @@ ("PendingCreditFacilityEvent::CollateralizationStateChanged" :> "skip")
    @@ ("PendingCreditFacilityEvent::Completed" :> "skip")
    @@ ("CreditFacilityEvent::Initialized" :> "multi:create_facility")
    @@ ("CreditFacilityEvent::InterestAccrualCycleStarted" :> "advance_time")
    @@ ("CreditFacilityEvent::InterestAccrualCycleConcluded" :> "skip")
    @@ ("CreditFacilityEvent::CollateralizationStateChanged" :> "skip")
    @@ ("CreditFacilityEvent::CollateralizationRatioChanged" :> "skip")
    @@ ("CreditFacilityEvent::PartialLiquidationInitiated" :> "skip")
    @@ ("CreditFacilityEvent::ProceedsFromPartialLiquidationApplied" :> "skip")
    @@ ("CreditFacilityEvent::Matured" :> "advance_time")
    @@ ("CreditFacilityEvent::Completed" :> "complete_facility")
    @@ ("DisbursalEvent::Initialized" :> "initiate_disbursal")
    @@ ("DisbursalEvent::ApprovalProcessConcluded" :> "skip")
    @@ ("DisbursalEvent::Settled" :> "wait_for_disbursal")
    @@ ("ObligationEvent::Initialized" :> "skip")
    @@ ("ObligationEvent::DueRecorded" :> "advance_time")
    @@ ("ObligationEvent::OverdueRecorded" :> "advance_time")
    @@ ("ObligationEvent::DefaultedRecorded" :> "advance_time")
    @@ ("ObligationEvent::PaymentAllocated" :> "skip")
    @@ ("ObligationEvent::Completed" :> "skip")
    @@ ("PaymentEvent::Initialized" :> "record_payment")
    @@ ("PaymentAllocationEvent::Initialized" :> "skip")
    @@ ("LiquidationEvent::Initialized" :> "skip")
    @@ ("LiquidationEvent::CollateralSentOut" :> "skip")
    @@ ("LiquidationEvent::ProceedsReceivedAndLiquidationCompleted" :> "skip")
    @@ ("CustodianEvent::Initialized" :> "skip")
    @@ ("CustodianEvent::ConfigUpdated" :> "skip")
    @@ ("ProspectEvent::Initialized" :> "skip")
    @@ ("ProspectEvent::KycStarted" :> "skip")
    @@ ("ProspectEvent::KycPending" :> "skip")
    @@ ("ProspectEvent::KycApproved" :> "skip")
    @@ ("ProspectEvent::KycDeclined" :> "skip")
    @@ ("ProspectEvent::ManuallyConverted" :> "skip")
    @@ ("ProspectEvent::Closed" :> "skip")
    @@ ("TermsTemplateEvent::Initialized" :> "create_terms_template")
    @@ ("CommitteeEvent::Initialized" :> "skip")
    @@ ("CommitteeEvent::MemberAdded" :> "skip")
    @@ ("ReportEvent::Initialized" :> "skip")
    @@ ("ReportRunEvent::Initialized" :> "skip")
    @@ ("ReportRunEvent::StateUpdated" :> "skip")
    @@ ("ChartEvent::Initialized" :> "skip")
    @@ ("ChartEvent::BaseConfigSet" :> "skip")
    @@ ("ChartNodeEvent::Initialized" :> "skip")
    @@ ("ChartNodeEvent::ChildNodeAdded" :> "skip")
    @@ ("RoleEvent::Initialized" :> "skip")
    @@ ("UserEvent::Initialized" :> "skip")

SimAction(action_type, entity, params, wait_days) ==
    [ action_type |-> action_type, entity |-> entity,
      params |-> params, wait_days |-> wait_days ]

\* n // 100: the fraction lost
Div100_floor(n) == [whole |-> n \div 100, cents |-> 0]

\* n / 100 (true division)
Div100(n) == [whole |-> n \div 100, cents |-> n % 100]

\* convert_scenario, lines 320-321: x.rstrip("_ref") if x.endswith("_ref") else x
StripRef(ref) ==
    IF EndsWith(ref, Str_ref) THEN RStrip(ref, {"_", "r", "e", "f"}) ELSE ref

\* convert_scenario, the body of the first loop; st = [tracker, collateral_amounts]
Pass1Event(st, event) ==
    IF event.event_type = "CollateralEvent::UpdatedViaManualInput"
    THEN [st EXCEPT !.collateral_amounts =
             Put(@, event.entity, Get(event.values, "collateral", 25000000))]
    ELSE IF event.event_type = "CustomerEvent::Initialized"
    THEN [st EXCEPT !.tracker = register_customer(@, event.entity)]
    ELSE IF event.event_type = "CreditFacilityEvent::Initialized"
    THEN LET customer_ref   == Get(event.values, "customer_id_ref", customer_1)
             collateral_ref == Get(event.values, "collateral_id_ref", collateral_1)
         IN [st EXCEPT !.tracker = register_facility(@, event.entity,
                StripRef(customer_ref), StripRef(collateral_ref),
                Get(event.values, "amount", 500000),
                Get(event.values, "terms", EmptyDict))]
    ELSE st

\* _expand_multi_action, lines 366-367: the untracked entity itself is never replaced
collateral_amount_default1(event, collateral_ref, amounts) ==
    IF collateral_ref \in DOMAIN amounts THEN amounts[collateral_ref]
    ELSE Get(amounts, collateral_1, Get(event.values, "collateral", 25000000))

\* _expand_multi_action, lines 366-367:
\* collateral_amounts.get(collateral_ref, event.values.get("collateral", 25000000))
collateral_amount(event, collateral_ref, amounts) ==
    Get(amounts, collateral_ref, Get(event.values, "collateral", 25000000))

\* RustGenerator._expand_multi_action
expand_multi_action(multi_type, event, t, amounts) ==
    IF multi_type = "create_facility"
    THEN LET facility_info     == Get(t.facilities, event.entity, EmptyDict)
             customer_ref      == Get(facility_info, "customer_ref", customer_1)
             collateral_ref    == Get(facility_info, "collateral_ref", collateral_1)
             terms             == Get(facility_info, "terms", TermsValuesDefault)
             amount            == Get(facility_info, "amount", 500000)
             satoshis          == collateral_amount(event, collateral_ref, amounts)
         IN << SimAction("create_proposal", event.entity,
                         [customer_ref |-> customer_ref,
                          amount_usd   |-> Div100(amount),
                          terms        |-> terms], 0),
               SimAction("conclude_customer_approval", event.entity, EmptyDict, 0),
               SimAction("wait_for_approval", event.entity, EmptyDict, 0),
               SimAction("update_collateral_for_activation", event.entity,
                         [satoshis |-> satoshis], 0),
               SimAction("wait_for_facility_activation", event.entity, EmptyDict, 0) >>
    ELSE <<>>

\* RustGenerator._extract_params
extract_params(event, action_type, t) ==
    LET params == Put(event.values, "entity", event.entity)
    IN CASE action_type = "create_customer" ->
              LET p1 == Put(params, "suffix", Replace(event.entity, Str_customer_))
                  p2 == Put(p1, "email", Get(p1, "email", <<event.entity, "@example.com">>))
              IN Put(p2, "customer_type", Get(p2, "customer_type", "Individual"))
         [] action_type = "make_deposit" ->
              Put(params, "amount_usd", Div100(Get(params, "amount", 10000000)))
         [] action_type = "create_proposal" ->
              LET p1 == Put(params, "amount_usd", Div100(Get(params, "amount", 500000)))
              IN Put(p1, "terms", from_yaml(Get(p1, "terms", EmptyDict)))
         [] action_type = "update_collateral" ->
              Put(params, "satoshis", Get(params, "collateral", 25000000))
         [] action_type = "initiate_disbursal" ->
              Put(params, "amount_usd", Div100(Get(params, "amount", 500000)))
         [] action_type = "record_payment" ->
              Put(params, "amount_usd", Div100(Get(params, "amount", 0)))
         [] OTHER -> params

\* every action of the expansion carrying the event's wait
multi_wait_days_all(k, event) == Days(event.after)

\* convert_scenario, line 343: ma.wait_days = event.after.days if i == 0 else 0
\* (k is the 1-based position in the expansion)
multi_wait_days(k, event) == IF k = 1 THEN Days(event.after) ELSE 0

\* the placeholder without the event type in its text
comment_action_bare(event) ==
    SimAction("comment", event.entity, [text |-> <<"TODO: ", "">>], Days(event.after))

\* convert_scenario, lines 332-338: the placeholder for an unknown event type
comment_action(event) ==
    SimAction("comment", event.entity,
              [text |-> <<"TODO: ", event.event_type>>], Days(event.after))

\* no action type recognised as an expansion
IsMulti_never(action_type) == FALSE

\* action_type.startswith("multi:") and action_type.split(":")[1]
IsMulti(action_type) == action_type \in {"multi:create_facility"}
MultiType(action_type) ==
    IF action_type = "multi:create_facility" THEN "create_facility" ELSE ""

\* convert_scenario, the body of the second loop: the actions one event appends
Pass2Event(event, t, amounts) ==
    LET action_type == Get(EVENT_TO_ACTION, event.event_type, "unknown")
    IN IF action_type = "skip" THEN <<>>
       ELSE IF action_type = "unknown" THEN <<comment_action(event)>>
       ELSE IF IsMulti(action_type)
       THEN LET multi_actions ==
                    expand_multi_action(MultiType(action_type), event, t, amounts)
            IN [k \in 1..Len(multi_actions) |->
                    [multi_actions[k] EXCEPT !.wait_days = multi_wait_days(k, event)]]
       ELSE << SimAction(action_type, event.entity,
                         extract_params(event, action_type, t), Days(event.after)) >>

\* convert_scenario as a function of the event list: both loops run to completion
RECURSIVE Pass1(_, _)
Pass1(st, evs) == IF evs = <<>> THEN st ELSE Pass1(Pass1Event(st, Head(evs)), Tail(evs))

RECURSIVE Pass2(_, _, _)
Pass2(evs, t, amounts) ==
    IF evs = <<>> THEN <<>>
    ELSE Pass2Event(Head(evs), t, amounts) \o Pass2(Tail(evs), t, amounts)

convert_scenario(evs) ==
    LET st == Pass1([tracker |-> EntityTracker, collateral_amounts |-> EmptyDict], evs)
    IN [actions |-> Pass2(evs, st.tracker, st.collateral_amounts), tracker |-> st.tracker]

-----------------------------------------------------------------------------
(* The inputs: raw event definitions, as yaml.safe_load returns them       *)

MaxEvents == 2        \* events per scenario under Spec
MaxParamEvents == 1   \* events per scenario under SpecParams
MaxRefLen == 5        \* atoms per customer_id_ref under SpecRef
MaxDurLen == 4        \* characters per 'after' string under SpecDuration
MaxKeyLen == 6        \* atoms per customer entity key under SpecCustomer

\* an optional field is <<>> (absent) or <<value>>
Opt(d, key, opt) == IF opt = <<>> THEN d ELSE Put(d, key, opt[1])

EventDef(event, entity, after, values) ==
    Opt(Opt([event |-> event, entity |-> entity], "after", after),
        "values", IF DOMAIN values = {} THEN <<>> ELSE <<values>>)

SeqsUpTo(S, n) == UNION {[1..k -> S] : k \in 0..n}
NonEmptySeqsUpTo(S, n) == UNION {[1..k -> S] : k \in 1..n}

Str_3d == <<"3", "d">>
Str_36h == <<"3", "6", "h">>

\* customer_id_ref / collateral_id_ref of a facility event: omitted, a registered
\* entity with the _ref marker, an entity nothing registers
RefPairs ==
    { <<<<>>, <<>>>>,
      <<<<customer_2 \o Str_ref>>, <<collateral_2 \o Str_ref>>>>,
      <<<<customer_9>>, <<collateral_9>>>>,
      <<<<>>, <<collateral_2 \o Str_ref>>>> }

FacilityValues(refs, coll) ==
    Opt(Opt(Opt(EmptyDict, "customer_id_ref", refs[1]),
            "collateral_id_ref", refs[2]), "collateral", coll)

TranslateEventDefs ==
    { EventDef("CustomerEvent::Initialized", e, <<>>, EmptyDict) :
        e \in {customer_1, customer_2} }
    \cup { EventDef(t, <<"x">>, a, EmptyDict) :
        t \in {"DepositAccountEvent::Initialized", "FooEvent::Bar"},
        a \in {<<>>, <<Str_3d>>} }
    \cup { EventDef("CollateralEvent::UpdatedViaManualInput", e, <<>>,
                    Opt(EmptyDict, "collateral", c)) :
        e \in {collateral_1, collateral_2}, c \in {<<>>, <<100>>} }
    \cup { EventDef("CollateralEvent::UpdatedViaCustodianSync", e, <<>>,
                    [collateral |-> 200]) :
        e \in {collateral_1, collateral_2} }
    \cup { EventDef("CreditFacilityEvent::Initialized", facility_1, a,
                    FacilityValues(refs, c)) :
        refs \in RefPairs, c \in {<<>>, <<300>>},
        a \in {<<>>, <<Str_3d>>, <<Str_36h>>} }
    \cup { EventDef("CreditFacilityEvent::Initialized", facility_2, <<>>,
                    FacilityValues(refs, <<>>)) :
        refs \in RefPairs }
    \cup { EventDef("DisbursalEvent::Initialized", disbursal_1, a, EmptyDict) :
        a \in {<<>>, <<Str_3d>>} }

-----------------------------------------------------------------------------
(* The state machine: parse_dict's loop, then convert_scenario's two loops *)

InitWith(inputs) ==
    /\ data \in inputs
    /\ events = <<>>
    /\ pc = "parse"
    /\ i = 1
    /\ collateral_amounts = EmptyDict
    /\ tracker = EntityTracker
    /\ actions = <<>>
    /\ yaml_files = <<>>
    /\ file_no = 1
    /\ scenarios = <<>>
    /\ output = EmptyDict
    /\ echoed = <<>>
    /\ mod_rs = None
    /\ bpc = "none"
    /\ exc = None

Init == InitWith(NonEmptySeqsUpTo(TranslateEventDefs, MaxEvents))

\* parse_dict: events.append(self._parse_event(event_def))
ParseEvent ==
    /\ pc = "parse" /\ i <= Len(data)
    /\ {"event", "entity"} \subseteq DOMAIN data[i]
    /\ events' = Append(events, parse_event(data[i]))
    /\ i' = i + 1
    /\ UNCHANGED <<data, pc, collateral_amounts, tracker, actions>>
    /\ UNCHANGED batch_vars

\* parse_dict returns the Scenario; convert_scenario starts with empty locals
ParseDone ==
    /\ pc = "parse" /\ i > Len(data)
    /\ pc' = "pass1"
    /\ i' = 1
    /\ actions' = <<>>
    /\ tracker' = EntityTracker
    /\ collateral_amounts' = EmptyDict
    /\ UNCHANGED <<data, events>>
    /\ UNCHANGED batch_vars

\* one iteration of convert_scenario's first loop
Pass1Step ==
    /\ pc = "pass1" /\ i <= Len(events)
    /\ LET st == Pass1Event([tracker |-> tracker,
                             collateral_amounts |-> collateral_amounts], events[i])
       IN /\ tracker' = st.tracker
          /\ collateral_amounts' = st.collateral_amounts
    /\ i' = i + 1
    /\ UNCHANGED <<data, events, pc, actions>>
    /\ UNCHANGED batch_vars

Pass1Done ==
    /\ pc = "pass1" /\ i > Len(events)
    /\ pc' = "pass2"
    /\ i' = 1
    /\ UNCHANGED <<data, events, collateral_amounts, tracker, actions>>
    /\ UNCHANGED batch_vars

\* the event's actions put in front of the list instead of at its end
Pass2Step_prepend ==
    /\ pc = "pass2" /\ i <= Len(events)
    /\ actions' = Pass2Event(events[i], tracker, collateral_amounts) \o actions
    /\ i' = i + 1
    /\ UNCHANGED <<data, events, pc, collateral_amounts, tracker>>
    /\ UNCHANGED batch_vars

\* one iteration of convert_scenario's second loop
Pass2Step ==
    /\ pc = "pass2" /\ i <= Len(events)
    /\ actions' = actions \o Pass2Event(events[i], tracker, collateral_amounts)
    /\ i' = i + 1
    /\ UNCHANGED <<data, events, pc, collateral_amounts, tracker>>
    /\ UNCHANGED batch_vars

\* return actions, tracker
Return ==
    /\ pc = "pass2" /\ i > Len(events)
    /\ pc' = "done"
    /\ UNCHANGED <<data, events, i, collateral_amounts, tracker, actions>>
    /\ UNCHANGED batch_vars

Next == ParseEvent \/ ParseDone \/ Pass1Step \/ Pass1Done \/ Pass2Step \/ Return

Spec == Init /\ [][Next]_vars

\* --- one facility event, customer_id_ref any string over RefAlphabet ---

RefAlphabet == {"buy", "_", "r", "e", "f"}

RefEventDefs ==
    { EventDef("CreditFacilityEvent::Initialized", facility_1, <<>>,
               Opt(Put(EmptyDict, "customer_id_ref", s), "collateral_id_ref", c)) :
        s \in SeqsUpTo(RefAlphabet, MaxRefLen),
        c \in {<<>>, <<collateral_2 \o Str_ref>>, <<(<<"buy", "e", "r">> \o Str_ref)>>} }

InitRef == InitWith({<<d>> : d \in RefEventDefs})

SpecRef == InitRef /\ [][Next]_vars

\* --- one event carrying a raw terms mapping ---

StrNum(v) == [kind |-> "str", v |-> v]
YamlNum(v) == [kind |-> "num", v |-> v]
Finite(x) == Put(EmptyDict, "Finite", x)
finite(x) == Put(EmptyDict, "finite", x)

TermsInputs ==
    { Opt(Opt(Opt(Opt(EmptyDict, "annual_rate", r), "initial_cvl", c1),
              "margin_call_cvl", c2), "liquidation_cvl", c3) :
        r  \in { <<>>, <<StrNum(10)>>, <<YamlNum(50)>>, <<StrNum(99)>>, <<StrNum(100)>>,
                 <<StrNum(1200)>>, <<YamlNum(0)>> },
        c1 \in { <<>>, <<EmptyDict>>, <<Finite(StrNum(140))>>, <<finite(StrNum(140))>>,
                 <<Finite(YamlNum(0))>>, <<Finite(StrNum(0))>>, <<Finite(StrNum(999))>>,
                 <<Finite(StrNum(1000))>>, <<Finite(YamlNum(14000))>>,
                 <<Put(Finite(StrNum(125)), "finite", StrNum(14000))>> },
        c2 \in { <<>>, <<Finite(StrNum(125))>>, <<finite(YamlNum(0))>> },
        c3 \in { <<>>, <<Finite(YamlNum(105))>> } }

TermsEventDefs ==
    { EventDef(t, facility_1, <<>>, Opt(EmptyDict, "terms", <<terms>>)) :
        t \in {"CreditFacilityEvent::Initialized", "CreditFacilityProposalEvent::Initialized"},
        terms \in TermsInputs }

InitTerms == InitWith({<<d>> : d \in TermsEventDefs})

SpecTerms == InitTerms /\ [][Next]_vars

\* --- one event, 'after' absent or any string over DurAlphabet ---

DurAlphabet == {"1", "3", "s", "m", "h", "d", "x"}

DurationEventDefs ==
    { EventDef("DepositEvent::Initialized", <<"x">>, a, EmptyDict) :
        a \in {<<>>} \cup {<<s>> : s \in SeqsUpTo(DurAlphabet, MaxDurLen)} }

InitDuration == InitWith({<<d>> : d \in DurationEventDefs})

SpecDuration == InitDuration /\ [][Next]_vars

\* --- directly mapped events with an amount ---

ParamValues ==
    { Opt(Opt(Opt(Opt(Opt(EmptyDict, "amount", a), "terms", tm), "note", n),
              "entity", e), "amount_usd", u) :
        a  \in {<<>>, <<1000000>>, <<12345>>},
        tm \in {<<>>, <<Put(EmptyDict, "annual_rate", StrNum(10))>>},
        n  \in {<<>>, <<"memo">>},
        e  \in {<<>>, <<(<<"z">>)>>},
        u  \in {<<>>, <<[whole |-> 7, cents |-> 0]>>} }

ParamEventDefs ==
    { EventDef(t, <<"x">>, <<>>, v) :
        t \in {"DepositEvent::Initialized", "CreditFacilityProposalEvent::Initialized",
               "DisbursalEvent::Initialized", "PaymentEvent::Initialized"},
        v \in ParamValues }

InitParams == InitWith(NonEmptySeqsUpTo(ParamEventDefs, MaxParamEvents))

SpecParams == InitParams /\ [][Next]_vars

\* --- one customer event, the entity key any string over KeyAlphabet ---

KeyAlphabet == {"custom", "e", "r", "_", "1"}

CustomerEventDefs ==
    { EventDef("CustomerEvent::Initialized", s, <<>>, EmptyDict) :
        s \in SeqsUpTo(KeyAlphabet, MaxKeyLen) }

InitCustomer == InitWith({<<d>> : d \in CustomerEventDefs})

SpecCustomer == InitCustomer /\ [][Next]_vars

-----------------------------------------------------------------------------
(* cli.py: convert_all, one iteration of its loop per file                 *)

MaxFiles == 2         \* files per batch under SpecBatch

\* a scenario name as yaml.safe_load returns it: a str, or (name: 123) an int,
\* both written in characters
YamlStr(s) == [kind |-> "str", v |-> s]

UpperLetters == <<"A", "B", "C", "D", "E", "F", "G", "H", "I", "J", "K", "L", "M",
                  "N", "O", "P", "Q", "R", "S", "T", "U", "V", "W", "X", "Y", "Z">>
LowerLetters == <<"a", "b", "c", "d", "e", "f", "g", "h", "i", "j", "k", "l", "m",
                  "n", "o", "p", "q", "r", "s", "t", "u", "v", "w", "x", "y", "z">>

\* str.lower(), character by character
Lower(s) ==
    [k \in DOMAIN s |->
        IF \E n \in DOMAIN UpperLetters : UpperLetters[n] = s[k]
        THEN LowerLetters[CHOOSE n \in DOMAIN UpperLetters : UpperLetters[n] = s[k]]
        ELSE s[k]]

\* the class [a-z0-9]
IsLowerAlnum(c) == c \in Digits \/ \E n \in DOMAIN LowerLetters : LowerLetters[n] = c

\* re.sub(r'[^a-z0-9]+', '_', s): every maximal run outside the class becomes one "_"
RECURSIVE SubNonAlnum(_, _)
SubNonAlnum(s, in_run) ==
    IF s = <<>> THEN <<>>
    ELSE IF IsLowerAlnum(Head(s)) THEN <<Head(s)>> \o SubNonAlnum(Tail(s), FALSE)
    ELSE IF in_run THEN SubNonAlnum(Tail(s), TRUE)
    ELSE <<"_">> \o SubNonAlnum(Tail(s), TRUE)

\* str.lstrip(chars)
RECURSIVE LStrip(_, _)
LStrip(s, chars) ==
    IF s # <<>> /\ Head(s) \in chars THEN LStrip(Tail(s), chars) ELSE s

\* Scenario.fn_name of a str name; a name that is not a str has no .lower()
fn_name(name) == RStrip(LStrip(SubNonAlnum(Lower(name.v), FALSE), {"_"}), {"_"})

module_name(name) == fn_name(name)

Str_unnamed == <<"u", "n", "n", "a", "m", "e", "d">>
Str_default_start == <<"2024-01-01T09:00:00", "Z">>
Str_bogus == <<"b", "o", "g", "u", "s">>

\* dt_str.replace("Z", "+00:00")
ReplaceZ(dt_str) == [k \in DOMAIN dt_str |-> IF dt_str[k] = "Z" THEN "+00:00" ELSE dt_str[k]]

\* the strings datetime.fromisoformat accepts, among those of the inputs
IsoFormat == { <<"2024-01-01T09:00:00", "+00:00">>, <<"2024-01-01T09:00:00">> }

\* _parse_datetime raises ValueError on any other string
parse_datetime_raises(dt_str) == ReplaceZ(dt_str) \notin IsoFormat

parse_datetime(dt_str) == ReplaceZ(dt_str)

\* the Scenario parse_dict builds once its loop has produced evs
Scenario(file, evs) ==
    [ name       |-> Get(file, "name", YamlStr(Str_unnamed)),
      start_time |-> parse_datetime(Get(file, "start_time", Str_default_start)),
      events     |-> evs ]

\* --- the files of a batch ---

DepositDef == EventDef("DepositEvent::Initialized", <<"x">>, <<>>, [amount |-> 1000])

FileEvents ==
    { <<>>,
      <<<<DepositDef>>>>,
      <<<<EventDef("CustomerEvent::Initialized", customer_1, <<>>, EmptyDict), DepositDef>>>>,
      <<<<[event |-> "DepositEvent::Initialized"]>>>>,
      <<<<DepositDef, [entity |-> <<"x">>]>>>> }

YamlFile(e, n, st) == Opt(Opt(Opt(EmptyDict, "events", e), "name", n), "start_time", st)

\* every events list under every kind of name; a mapping with no key at all; a
\* start_time that does not parse, in a file that is otherwise converted and in
\* one that also lacks an event field
FileDefs ==
    { YamlFile(e, n, <<>>) :
        e \in FileEvents \ {<<>>},
        n \in {<<YamlStr(<<"a">>)>>, <<YamlStr(<<"A", "-">>)>>, <<YamlNum(<<"1", "2", "3">>)>>} }
    \cup { YamlFile(<<>>, n, <<>>) : n \in {<<>>, <<YamlStr(<<"a">>)>>} }
    \cup { YamlFile(<<<<DepositDef>>>>, <<YamlStr(<<"a">>)>>, <<Str_bogus>>),
           YamlFile(<<<<DepositDef, [entity |-> <<"x">>]>>>>, <<>>, <<Str_bogus>>) }

InitBatch ==
    /\ yaml_files \in SeqsUpTo(FileDefs, MaxFiles)
    /\ file_no = 1
    /\ scenarios = <<>>
    /\ output = EmptyDict
    /\ echoed = <<>>
    /\ mod_rs = None
    /\ bpc = "loop"
    /\ exc = None
    /\ data = <<>>
    /\ events = <<>>
    /\ pc = "idle"
    /\ i = 1
    /\ collateral_amounts = EmptyDict
    /\ tracker = EntityTracker
    /\ actions = <<>>

\* for yaml_file in yaml_files: try: parser.parse_file(yaml_file) enters parse_dict
BatchNextFile ==
    /\ bpc = "loop" /\ file_no <= Len(yaml_files)
    /\ bpc' = "file"
    /\ data' = Get(yaml_files[file_no], "events", <<>>)
    /\ events' = <<>>
    /\ pc' = "parse"
    /\ i' = 1
    /\ UNCHANGED <<collateral_amounts, tracker, actions>>
    /\ UNCHANGED <<yaml_files, file_no, scenarios, output, echoed, mod_rs, exc>>

\* _parse_event: event_def["event"], then event_def["entity"], raises KeyError
ParseRaise ==
    /\ pc = "parse" /\ i <= Len(data)
    /\ ~({"event", "entity"} \subseteq DOMAIN data[i])
    /\ pc' = "raised"
    /\ exc' = <<[type |-> "KeyError",
                 arg  |-> IF "event" \notin DOMAIN data[i] THEN "event" ELSE "entity"]>>
    /\ UNCHANGED <<data, events, i, collateral_amounts, tracker, actions>>
    /\ UNCHANGED <<yaml_files, file_no, scenarios, output, echoed, mod_rs, bpc>>

\* parse_dict: the start_time does not parse
ParseDatetimeRaise ==
    /\ bpc = "file" /\ pc = "parse" /\ i > Len(data)
    /\ parse_datetime_raises(Get(yaml_files[file_no], "start_time", Str_default_start))
    /\ pc' = "raised"
    /\ exc' = <<[type |-> "ValueError",
                 arg  |-> Get(yaml_files[file_no], "start_time", Str_default_start)]>>
    /\ UNCHANGED <<data, events, i, collateral_amounts, tracker, actions>>
    /\ UNCHANGED <<yaml_files, file_no, scenarios, output, echoed, mod_rs, bpc>>

\* parse_file returns; scenarios.append(scenario); generate_rust enters convert_scenario
BatchParsed ==
    /\ bpc = "file" /\ pc = "parse" /\ i > Len(data)
    /\ ~parse_datetime_raises(Get(yaml_files[file_no], "start_time", Str_default_start))
    /\ scenarios' = Append(scenarios, Scenario(yaml_files[file_no], events))
    /\ pc' = "pass1"
    /\ i' = 1
    /\ actions' = <<>>
    /\ tracker' = EntityTracker
    /\ collateral_amounts' = EmptyDict
    /\ UNCHANGED <<data, events>>
    /\ UNCHANGED <<yaml_files, file_no, output, echoed, mod_rs, bpc, exc>>

\* scenario.module_name (also read by the templates): self.name.lower() on a non-str
ModuleNameRaise ==
    /\ bpc = "file" /\ pc = "done"
    /\ scenarios[Len(scenarios)].name.kind # "str"
    /\ pc' = "raised"
    /\ exc' = <<[type |-> "AttributeError", arg |-> "lower"]>>
    /\ UNCHANGED <<data, events, i, collateral_amounts, tracker, actions>>
    /\ UNCHANGED <<yaml_files, file_no, scenarios, output, echoed, mod_rs, bpc>>

\* rust_file.write_text(rust_code) fails in the file system
WriteRaise ==
    /\ bpc = "file" /\ pc = "done"
    /\ scenarios[Len(scenarios)].name.kind = "str"
    /\ pc' = "raised"
    /\ exc' = <<[type |-> "OSError",
                 arg  |-> module_name(scenarios[Len(scenarios)].name)]>>
    /\ UNCHANGED <<data, events, i, collateral_amounts, tracker, actions>>
    /\ UNCHANGED <<yaml_files, file_no, scenarios, output, echoed, mod_rs, bpc>>

\* an except clause that leaves the loop instead of going on with the next file
BatchExcept_break ==
    /\ bpc = "file" /\ pc = "raised"
    /\ echoed' = Append(echoed, [file |-> file_no, ok |-> FALSE, text |-> exc[1]])
    /\ exc' = None
    /\ file_no' = Len(yaml_files) + 1
    /\ bpc' = "loop"
    /\ pc' = "idle"
    /\ UNCHANGED <<data, events, i, collateral_amounts, tracker, actions>>
    /\ UNCHANGED <<yaml_files, scenarios, output, mod_rs>>

\* except Exception as e: echo the file and the reason, go on with the next file
BatchExcept ==
    /\ bpc = "file" /\ pc = "raised"
    /\ echoed' = Append(echoed, [file |-> file_no, ok |-> FALSE, text |-> exc[1]])
    /\ exc' = None
    /\ file_no' = file_no + 1
    /\ bpc' = "loop"
    /\ pc' = "idle"
    /\ UNCHANGED <<data, events, i, collateral_amounts, tracker, actions>>
    /\ UNCHANGED <<yaml_files, scenarios, output, mod_rs>>

\* the template is rendered (rust_code is written as the values it is rendered
\* from), the .rs file written, the success line echoed
BatchWrite ==
    /\ bpc = "file" /\ pc = "done"
    /\ scenarios[Len(scenarios)].name.kind = "str"
    /\ LET scenario == scenarios[Len(scenarios)]
           rust_code == [scenario |-> scenario, actions |-> actions, tracker |-> tracker]
       IN /\ output' = Put(output, module_name(scenario.name), rust_code)
          /\ echoed' = Append(echoed, [file |-> file_no, ok |-> TRUE,
                                       text |-> module_name(scenario.name)])
    /\ file_no' = file_no + 1
    /\ bpc' = "loop"
    /\ pc' = "idle"
    /\ UNCHANGED <<data, events, i, collateral_amounts, tracker, actions>>
    /\ UNCHANGED <<yaml_files, scenarios, mod_rs, exc>>

\* generate_mod_rs: template.render(scenarios=scenarios); the rendered text is
\* written as the list it is rendered from
generate_mod_rs(scens) == <<scens>>

\* after the loop: mod_rs = generator.generate_mod_rs(scenarios)
BatchModRs ==
    /\ bpc = "loop" /\ file_no > Len(yaml_files)
    /\ mod_rs' = generate_mod_rs(scenarios)
    /\ bpc' = "done"
    /\ UNCHANGED <<data, events, pc, i, collateral_amounts, tracker, actions>>
    /\ UNCHANGED <<yaml_files, file_no, scenarios, output, echoed, exc>>

NextBatch ==
    \/ BatchNextFile \/ ParseEvent \/ ParseRaise \/ ParseDatetimeRaise \/ BatchParsed
    \/ Pass1Step \/ Pass1Done \/ Pass2Step \/ Return
    \/ ModuleNameRaise \/ WriteRaise \/ BatchWrite \/ BatchExcept \/ BatchModRs

SpecBatch == InitBatch /\ [][NextBatch]_vars

-----------------------------------------------------------------------------
(* Vocabulary of the properties                                            *)

Done == pc = "done"

IsKnown(event) == event.event_type \in DOMAIN EVENT_TO_ACTION
IsSkip(event) == IsKnown(event) /\ EVENT_TO_ACTION[event.event_type] = "skip"
IsFacilityInit(event) == event.event_type = "CreditFacilityEvent::Initialized"
IsDirect(event) == IsKnown(event) /\ ~IsSkip(event) /\ ~IsFacilityInit(event)

\* the number of actions the dispatch classification of an event calls for
ClassCount(event) ==
    IF ~IsKnown(event) THEN 1
    ELSE IF IsSkip(event) THEN 0
    ELSE IF EVENT_TO_ACTION[event.event_type] = "multi:create_facility" THEN 5
    ELSE 1

\* the number of actions called for by the first k events
RECURSIVE Offset(_, _)
Offset(evs, k) == IF k = 0 THEN 0 ELSE Offset(evs, k - 1) + ClassCount(evs[k])

Count(evs, P(_)) == Cardinality({k \in 1..Len(evs) : P(evs[k])})

\* C1: every event contributes 0 (skip), 5 (multi:create_facility) or 1 (direct,
\* unknown) actions: after each iteration of the second loop the list holds exactly
\* the actions called for by the events handled so far, and the final length is
\* #direct + #unknown + 5 * #CreditFacilityEvent::Initialized.
C1_ActionCount ==
    /\ pc \in {"pass2", "done"} => Len(actions) = Offset(events, i - 1)
    /\ Done => Len(actions) =
            Count(events, IsDirect) + Count(events, LAMBDA e : ~IsKnown(e))
            + 5 * Count(events, IsFacilityInit)

C1_Witness ==
    /\ Done /\ Len(events) = 2
    /\ IsSkip(events[1]) /\ IsFacilityInit(events[2])
    /\ Len(actions) = 5

\* the position of the event's k-th own action in the final list
ActionOf(k, n) == actions[Offset(events, k - 1) + n]

RemoveAt(s, k) == SubSeq(s, 1, k - 1) \o SubSeq(s, k + 1, Len(s))

\* C2: the five actions of a CreditFacilityEvent::Initialized event are contiguous
\* and in the order create_proposal, conclude_customer_approval, wait_for_approval,
\* update_collateral_for_activation, wait_for_facility_activation; the first waits
\* the whole days of the event's 'after' (3 for "3d", 1 for "36h", 0 when absent),
\* the other four wait 0.
C2_ExpansionOrderAndWait ==
    Done => \A k \in 1..Len(events) : IsFacilityInit(events[k]) =>
        /\ [n \in 1..5 |-> ActionOf(k, n).action_type] =
               << "create_proposal", "conclude_customer_approval", "wait_for_approval",
                  "update_collateral_for_activation", "wait_for_facility_activation" >>
        /\ \A n \in 1..5 : ActionOf(k, n).entity = events[k].entity
        /\ ActionOf(k, 1).wait_days = events[k].after \div 86400
        /\ Get(data[k], "after", <<>>) = Str_3d => ActionOf(k, 1).wait_days = 3
        /\ Get(data[k], "after", <<>>) = Str_36h => ActionOf(k, 1).wait_days = 1
        /\ "after" \notin DOMAIN data[k] => ActionOf(k, 1).wait_days = 0
        /\ \A n \in 2..5 : ActionOf(k, n).wait_days = 0

C2_Witness ==
    /\ Done /\ Len(events) = 2
    /\ IsDirect(events[1]) /\ IsFacilityInit(events[2])
    /\ Get(data[2], "after", <<>>) = Str_3d
    /\ actions[2].wait_days = 3 /\ actions[6].wait_days = 0

\* C3: an event whose type is not in EVENT_TO_ACTION yields exactly one action, a
\* 'comment' with the event's entity and the text "TODO: <event_type>", and the
\* actions of the other events are those of the scenario without that event.
C3_UnknownEvent ==
    Done => \A k \in 1..Len(events) : ~IsKnown(events[k]) =>
        /\ Len(actions) = Len(convert_scenario(RemoveAt(events, k)).actions) + 1
        /\ ActionOf(k, 1).action_type = "comment"
        /\ ActionOf(k, 1).entity = events[k].entity
        /\ ActionOf(k, 1).params["text"] = <<"TODO: ", events[k].event_type>>
        /\ RemoveAt(actions, Offset(events, k - 1) + 1) =
               convert_scenario(RemoveAt(events, k)).actions

C3_Witness ==
    /\ Done /\ Len(events) = 2
    /\ events[1].event_type = "FooEvent::Bar" /\ IsFacilityInit(events[2])
    /\ Len(actions) = 6 /\ actions[1].action_type = "comment"

\* the facility event at k is the one whose registration survives the first loop
LastOfEntity(k) ==
    \A j \in (k + 1)..Len(events) :
        ~(IsFacilityInit(events[j]) /\ events[j].entity = events[k].entity)

\* the events the dispatch table maps to update_collateral, for one entity
CollateralUpdates(entity) ==
    { j \in 1..Len(events) :
        /\ IsKnown(events[j])
        /\ EVENT_TO_ACTION[events[j].event_type] = "update_collateral"
        /\ events[j].entity = entity }

MaxOf(S) == CHOOSE x \in S : \A y \in S : y <= x

\* the string with one trailing "_ref" (its last four characters) removed
StripOnce(s) == IF EndsWith(s, Str_ref) THEN SubSeq(s, 1, Len(s) - 4) ELSE s

\* C4: satoshis of update_collateral_for_activation is the 'collateral' value of
\* the last collateral-update event (any type mapped to update_collateral) of the
\* facility's registered collateral entity, wherever it stands; without such an
\* event, the facility event's own 'collateral', else 25,000,000.
C4_SatoshisFromLastUpdate ==
    Done => \A k \in 1..Len(events) : IsFacilityInit(events[k]) =>
        LET ref == tracker.facilities[events[k].entity].collateral_ref
            upd == CollateralUpdates(ref)
        IN ActionOf(k, 4).params["satoshis"] =
               IF upd # {}
               THEN Get(events[MaxOf(upd)].values, "collateral", 25000000)
               ELSE Get(events[k].values, "collateral", 25000000)

\* C5: the registered customer_ref / collateral_ref are the raw customer_id_ref /
\* collateral_id_ref with exactly one trailing "_ref" removed, or unchanged when
\* the raw string does not end in "_ref".
C5_RefStrippedOnce ==
    pc \in {"pass2", "done"} =>
        \A k \in 1..Len(events) : IsFacilityInit(events[k]) /\ LastOfEntity(k) =>
            LET info == tracker.facilities[events[k].entity]
            IN /\ info.customer_ref =
                      StripOnce(Get(events[k].values, "customer_id_ref", customer_1))
               /\ info.collateral_ref =
                      StripOnce(Get(events[k].values, "collateral_id_ref", collateral_1))

C7_OmittedRefsDefault ==
    Done => \A k \in 1..Len(events) : IsFacilityInit(events[k]) =>
        /\ "customer_id_ref" \notin DOMAIN events[k].values =>
               ActionOf(k, 1).params["customer_ref"] = customer_1
        /\ "collateral_id_ref" \notin DOMAIN events[k].values
              /\ collateral_1 \in DOMAIN collateral_amounts =>
               ActionOf(k, 4).params["satoshis"] = collateral_amounts[collateral_1]

\* C7, amended: the same, for a facility event that no later
\* CreditFacilityEvent::Initialized event of the same entity follows.
C7_OmittedRefsDefaultOfLast ==
    Done => \A k \in 1..Len(events) : IsFacilityInit(events[k]) /\ LastOfEntity(k) =>
        /\ "customer_id_ref" \notin DOMAIN events[k].values =>
               ActionOf(k, 1).params["customer_ref"] = customer_1
        /\ "collateral_id_ref" \notin DOMAIN events[k].values
              /\ collateral_1 \in DOMAIN collateral_amounts =>
               ActionOf(k, 4).params["satoshis"] = collateral_amounts[collateral_1]

C7_Witness ==
    /\ Done /\ Len(events) = 2
    /\ IsFacilityInit(events[1]) /\ DOMAIN events[1].values = {}
    /\ events[2].event_type = "CollateralEvent::UpdatedViaManualInput"
    /\ events[2].entity = collateral_1 /\ events[2].values = [collateral |-> 100]
    /\ actions[1].params["customer_ref"] = customer_1
    /\ actions[4].params["satoshis"] = 100

\* C5 is reached (SpecRef): a raw reference that ends in "_ref" has been registered
C5_Witness ==
    /\ Done
    /\ events[1].values["customer_id_ref"] = <<"buy", "_", "r", "e", "f">>
    /\ tracker.facilities[facility_1].customer_ref = <<"buy">>

\* the normalization C8 states
ClaimedRate(terms) ==
    IF "annual_rate" \in DOMAIN terms
    THEN IF terms["annual_rate"].v < 100
         THEN terms["annual_rate"].v * 100 ELSE terms["annual_rate"].v
    ELSE 1200

ClaimedCvl(terms, field, default) ==
    LET m == Get(terms, field, EmptyDict)
    IN IF "Finite" \in DOMAIN m
       THEN (IF m["Finite"].v < 1000 THEN m["Finite"].v * 100 ELSE m["Finite"].v)
       ELSE IF "finite" \in DOMAIN m
       THEN (IF m["finite"].v < 1000 THEN m["finite"].v * 100 ELSE m["finite"].v)
       ELSE default

\* the TermsValues the translator built from the k-th event's raw terms
BuiltTerms(k) ==
    IF IsFacilityInit(events[k])
    THEN tracker.facilities[events[k].entity].terms
    ELSE ActionOf(k, 1).params["terms"]

\* C8: from_yaml gives annual_rate raw*100 when raw < 1, else raw (12 when absent);
\* each CVL value*100 when the Finite/finite value is < 10, else the value, and the
\* default (140 / 125 / 105) exactly when the nested mapping or its Finite key is
\* absent; {annual_rate: 0.10, initial_cvl: {Finite: 1.40}} gives 10 and 140.
C8_TermsNormalized ==
    Done => \A k \in 1..Len(events) :
        "terms" \in DOMAIN events[k].values /\ (IsFacilityInit(events[k]) =>
                                                 LastOfEntity(k)) =>
            LET raw == events[k].values["terms"]
                tv  == BuiltTerms(k)
            IN /\ tv.annual_rate = ClaimedRate(raw)
               /\ tv.initial_cvl = ClaimedCvl(raw, "initial_cvl", 14000)
               /\ tv.margin_call_cvl = ClaimedCvl(raw, "margin_call_cvl", 12500)
               /\ tv.liquidation_cvl = ClaimedCvl(raw, "liquidation_cvl", 10500)

\* the duration C9 states for a raw event definition, in seconds
IsExactDuration(s) ==
    /\ Len(s) >= 2
    /\ \A j \in 1..(Len(s) - 1) : s[j] \in Digits
    /\ s[Len(s)] \in {"s", "m", "h", "d"}

ClaimedDuration(event_def) ==
    IF "after" \notin DOMAIN event_def THEN 0
    ELSE LET s == event_def["after"]
         IN IF ~IsExactDuration(s) THEN 0
            ELSE LET n == IntOf(SubSeq(s, 1, Len(s) - 1))
                     u == s[Len(s)]
                 IN IF u = "s" THEN n ELSE IF u = "m" THEN 60 * n
                    ELSE IF u = "h" THEN 3600 * n ELSE 86400 * n

\* C9: 'after' parses to N seconds / minutes / hours / days for exactly
\* "<integer N><unit>", and to a zero duration when absent and for every other
\* string, composite durations and trailing text included.
C9_DurationExactForm ==
    \A k \in 1..Len(events) : events[k].after = ClaimedDuration(data[k])

AmountActions == {"make_deposit", "create_proposal", "initiate_disbursal", "record_payment"}

HasAmountAction(event) ==
    IsKnown(event) /\ EVENT_TO_ACTION[event.event_type] \in AmountActions

DefaultAmount(action_type) ==
    CASE action_type = "make_deposit" -> 10000000
      [] action_type = "create_proposal" -> 500000
      [] action_type = "initiate_disbursal" -> 500000
      [] action_type = "record_payment" -> 0

\* what C10 states of the params p of the action of event k, but for the raw
\* values under the keys in `except`
AmountParams(k, except) ==
    LET p      == ActionOf(k, 1).params
        v      == events[k].values
        amount == Get(v, "amount", DefaultAmount(ActionOf(k, 1).action_type))
    IN /\ \A key \in (DOMAIN v) \ except : key \in DOMAIN p /\ p[key] = v[key]
       /\ p["entity"] = events[k].entity
       /\ p["amount_usd"].whole * 100 + p["amount_usd"].cents = amount
       /\ p["amount_usd"].cents \in 0..99
       /\ amount = 1000000 => p["amount_usd"] = [whole |-> 10000, cents |-> 0]
       /\ events[k].values = Get(data[k], "values", EmptyDict)

\* C10, as claimed: the params of a make_deposit, create_proposal,
\* initiate_disbursal or record_payment action hold all of the event's raw values,
\* 'entity', and amount_usd = amount / 100 (amount defaulting to 10,000,000 /
\* 500,000 / 500,000 / 0); the event's values are unchanged.
C10_ParamsKeepAllRawValues ==
    Done => \A k \in 1..Len(events) : HasAmountAction(events[k]) => AmountParams(k, {})

\* C10, amended: the same, for the raw values under every key but 'entity' and
\* 'amount_usd', which the action sets itself, and 'terms' of create_proposal,
\* which holds the TermsValues built from the raw terms (from none, the defaults).
C10_ParamsKeepOtherRawValues ==
    Done => \A k \in 1..Len(events) : HasAmountAction(events[k]) =>
        IF ActionOf(k, 1).action_type = "create_proposal"
        THEN /\ AmountParams(k, {"entity", "amount_usd", "terms"})
             /\ ActionOf(k, 1).params["terms"] =
                    from_yaml(Get(events[k].values, "terms", EmptyDict))
        ELSE AmountParams(k, {"entity", "amount_usd"})

C10_Witness ==
    /\ Done
    /\ events[1].event_type = "DisbursalEvent::Initialized"
    /\ events[1].values = [amount |-> 12345, note |-> "memo"]
    /\ actions[1].params["amount_usd"] = [whole |-> 123, cents |-> 45]
    /\ actions[1].params["note"] = "memo"

\* the key with a leading "customer_" removed, once
StripPrefix(s) ==
    IF StartsWithAt(s, 1, Str_customer_)
    THEN SubSeq(s, Len(Str_customer_) + 1, Len(s)) ELSE s

\* C11: the suffix registered for a customer and the 'suffix' param of its
\* create_customer action are the entity key with a leading "customer_" removed
\* (the prefix only, at most once), and the key unchanged when it does not start
\* with "customer_".
C11_SuffixIsKeyWithoutPrefix ==
    Done => \A k \in 1..Len(events) : events[k].event_type = "CustomerEvent::Initialized" =>
        /\ tracker.customers[events[k].entity] = StripPrefix(events[k].entity)
        /\ ActionOf(k, 1).params["suffix"] = StripPrefix(events[k].entity)

\* C12: in the tracker translate returns, get_facility_for_entity of a collateral
\* key that a registered facility names as its collateral_ref, and of the entity
\* of a DisbursalEvent::Initialized event, is the key of a registered facility
\* (for the collateral: one that names it).
C12_ReverseLookup ==
    Done =>
        /\ \A f \in DOMAIN tracker.facilities :
               LET c == tracker.facilities[f].collateral_ref
                   r == get_facility_for_entity(tracker, c)
               IN /\ r # None
                  /\ r[1] \in DOMAIN tracker.facilities
                  /\ tracker.facilities[r[1]].collateral_ref = c
        /\ \A k \in 1..Len(events) :
               events[k].event_type = "DisbursalEvent::Initialized" =>
                   LET r == get_facility_for_entity(tracker, events[k].entity)
                   IN r # None /\ r[1] \in DOMAIN tracker.facilities

\* the action type called for by the n-th own action of an event
OwnActionType(event, n) ==
    IF ~IsKnown(event) THEN "comment"
    ELSE IF IsFacilityInit(event)
    THEN << "create_proposal", "conclude_customer_approval", "wait_for_approval",
            "update_collateral_for_activation", "wait_for_facility_activation" >>[n]
    ELSE EVENT_TO_ACTION[event.event_type]

RECURSIVE SumSeq(_)
SumSeq(s) == IF s = <<>> THEN 0 ELSE Head(s) + SumSeq(Tail(s))

\* C14: the action list is the concatenation, in event order, of each event's own
\* actions (the k-th event's block follows the blocks of all earlier events); a
\* skip event contributes no action and its 'after' is dropped: every action waits
\* the whole days of its own event's 'after' if it is the event's first action and
\* 0 otherwise, so the waits add up to those of the events that are not skipped.
C14_EventOrderAndOwnWait ==
    Done =>
        /\ Len(actions) = Offset(events, Len(events))
        /\ \A k \in 1..Len(events) :
               /\ IsSkip(events[k]) => Offset(events, k) = Offset(events, k - 1)
               /\ \A n \in 1..ClassCount(events[k]) :
                      /\ ActionOf(k, n).entity = events[k].entity
                      /\ ActionOf(k, n).action_type = OwnActionType(events[k], n)
                      /\ ActionOf(k, n).wait_days =
                             IF n = 1 THEN events[k].after \div 86400 ELSE 0
                      /\ n = 1 /\ Get(data[k], "after", <<>>) = Str_3d =>
                             ActionOf(k, n).wait_days = 3
        /\ SumSeq([a \in 1..Len(actions) |-> actions[a].wait_days]) =
               SumSeq([k \in 1..Len(events) |->
                          IF IsSkip(events[k]) THEN 0 ELSE events[k].after \div 86400])

C14_Witness ==
    /\ Done /\ Len(events) = 2
    /\ IsSkip(events[1]) /\ Get(data[1], "after", <<>>) = Str_3d
    /\ events[2].event_type = "DisbursalEvent::Initialized"
    /\ "after" \notin DOMAIN data[2]
    /\ Len(actions) = 1
    /\ actions[1].action_type = "initiate_disbursal" /\ actions[1].wait_days = 0

\* --- batch conversion ---

RawEvents(file) == Get(file, "events", <<>>)

MissingField(file) ==
    \E k \in DOMAIN RawEvents(file) : ~({"event", "entity"} \subseteq DOMAIN RawEvents(file)[k])

\* the required field first found missing, in the order the parser reads them
FirstMissingField(file) ==
    LET evs == RawEvents(file)
        k == CHOOSE n \in DOMAIN evs :
                 /\ ~({"event", "entity"} \subseteq DOMAIN evs[n])
                 /\ \A m \in 1..(n - 1) : {"event", "entity"} \subseteq DOMAIN evs[m]
    IN IF "event" \notin DOMAIN evs[k] THEN "event" ELSE "entity"

BadTimestamp(file) ==
    parse_datetime_raises(Get(file, "start_time", Str_default_start))

ParsedEvents(file) == [k \in DOMAIN RawEvents(file) |-> parse_event(RawEvents(file)[k])]

\* C13: a file that fails (a required event field missing, a timestamp that does
\* not parse, ...) never ends the batch: the loop is never stuck, every file of the
\* sorted list gets exactly one echoed line, in order; the line of a failing file
\* carries its reason; the .rs of every file echoed as converted is in the output
\* directory, and holds that file's translation unless a later file of the same
\* module name replaced it.
C13_BatchContinues ==
    bpc # "none" =>
        /\ bpc # "done" => ENABLED NextBatch
        /\ Len(echoed) = file_no - 1
        /\ bpc = "done" => Len(echoed) = Len(yaml_files)
        /\ \A k \in DOMAIN echoed :
               LET file == yaml_files[k] IN
               /\ echoed[k].file = k
               /\ MissingField(file) =>
                      /\ ~echoed[k].ok
                      /\ echoed[k].text = [type |-> "KeyError", arg |-> FirstMissingField(file)]
               /\ ~MissingField(file) /\ BadTimestamp(file) =>
                      /\ ~echoed[k].ok
                      /\ echoed[k].text = [type |-> "ValueError", arg |-> file["start_time"]]
               /\ echoed[k].ok =>
                      /\ ~MissingField(file) /\ ~BadTimestamp(file)
                      /\ echoed[k].text \in DOMAIN output
                      /\ (\A n \in DOMAIN echoed :
                              n > k /\ echoed[n].ok => echoed[n].text # echoed[k].text) =>
                             /\ output[echoed[k].text].scenario =
                                    Scenario(file, ParsedEvents(file))
                             /\ output[echoed[k].text].actions =
                                    convert_scenario(ParsedEvents(file)).actions

C13_Witness ==
    /\ bpc = "done" /\ Len(yaml_files) = 2
    /\ MissingField(yaml_files[1]) /\ ~echoed[1].ok
    /\ echoed[2].ok /\ echoed[2].text = <<"a">>
    /\ Len(output[<<"a">>].actions) = 1

\* C15: when convert_all ends, the list handed to generate_mod_rs holds exactly the
\* scenarios of the files echoed as converted, and the .rs of each listed scenario
\* is in the output directory.
C15_ModRsListsOnlyWritten ==
    bpc = "done" =>
        /\ Len(mod_rs[1]) = Cardinality({k \in DOMAIN echoed : echoed[k].ok})
        /\ \A n \in DOMAIN mod_rs[1] :
               /\ mod_rs[1][n].name.kind = "str"
               /\ module_name(mod_rs[1][n].name) \in DOMAIN output

====
